---- MODULE Spec2Model ----
(***************************************************************************)
(* Tool provisioning of the offline converter: src/utils/tool_downloader.py *)
(* The model follows one top-level call at a time (an install through      *)
(* download_and_setup_tool, or a bare download_file call) through its      *)
(* stages, over an abstract file system: the artifact files in temp/, the  *)
(* per-tool scratch directories temp/<tool>, the canonical install         *)
(* directories and the version.json ledger files.                          *)
(***************************************************************************)
EXTENDS Integers, Sequences, FiniteSets, TLC

(***************************************************************************)
(* Bounds of the model.                                                    *)
(***************************************************************************)
\* Largest body size / advertised content-length, in chunks.
MaxBytes == 2
\* Most members a failed extraction leaves behind in the scratch directory.
MaxDebris == 1

(***************************************************************************)
(* Program constants.                                                      *)
(***************************************************************************)
\* download_file(..., max_retries: int = 3, ...)
max_retries == 3

Platforms == {"windows", "darwin", "linux"}

\* The keys of TOOL_VERSIONS.
Tools == {"ffmpeg", "pandoc", "libreoffice"}

\* A tool name that is no key of TOOL_VERSIONS.
UnknownTool == "unknown"

\* TOOL_VERSIONS[t]['version']
CatalogVersion(t) ==
    CASE t = "ffmpeg" -> "7.0.2"
      [] t = "pandoc" -> "3.6.3"
      [] t = "libreoffice" -> "25.2.1"

(***************************************************************************)
(* URLs.  A URL is the sequence of the parts url.split('/') yields.  A     *)
(* part keeps its text, the archive suffix extract_archive dispatches on,  *)
(* and which of the substrings download_file tests for occur in its        *)
(* lower-cased text.                                                       *)
(***************************************************************************)
Seg(text, ext, tags) == [text |-> text, ext |-> ext, tags |-> tags]

Plain(text) == Seg(text, "", {})

Url(t, p) ==
    CASE t = "ffmpeg" /\ p = "windows" ->
           << Plain("https:"), Plain(""), Plain("github.com"), Plain("BtbN"),
              Plain("FFmpeg-Builds"), Plain("releases"), Plain("download"),
              Plain("latest"),
              Seg("ffmpeg-master-latest-win64-gpl.zip", ".zip", {}) >>
      [] t = "ffmpeg" /\ p = "darwin" ->
           << Plain("https:"), Plain(""), Plain("evermeet.cx"), Plain("ffmpeg"),
              Seg("ffmpeg-7.0.2.zip", ".zip", {}) >>
      [] t = "ffmpeg" /\ p = "linux" ->
           << Plain("https:"), Plain(""), Plain("johnvansickle.com"),
              Plain("ffmpeg"), Plain("releases"),
              Seg("ffmpeg-release-amd64-static.tar.xz", ".tar.xz", {}) >>
      [] t = "pandoc" /\ p = "windows" ->
           << Plain("https:"), Plain(""), Plain("github.com"), Plain("jgm"),
              Plain("pandoc"), Plain("releases"), Plain("download"),
              Plain("3.6.3"),
              Seg("pandoc-3.6.3-windows-x86_64.zip", ".zip", {}) >>
      [] t = "pandoc" /\ p = "darwin" ->
           << Plain("https:"), Plain(""), Plain("github.com"), Plain("jgm"),
              Plain("pandoc"), Plain("releases"), Plain("download"),
              Plain("3.6.3"),
              Seg("pandoc-3.6.3-macOS.zip", ".zip", {}) >>
      [] t = "pandoc" /\ p = "linux" ->
           << Plain("https:"), Plain(""), Plain("github.com"), Plain("jgm"),
              Plain("pandoc"), Plain("releases"), Plain("download"),
              Plain("3.6.3"),
              Seg("pandoc-3.6.3-linux-amd64.tar.gz", ".tar.gz", {}) >>
      [] t = "libreoffice" /\ p = "windows" ->
           << Plain("https:"), Plain(""),
              Seg("sourceforge.net", "", {"sourceforge.net"}),
              Plain("projects"), Plain("portableapps"), Plain("files"),
              Seg("LibreOffice%20Portable", "", {"libreoffice"}),
              Seg("LibreOfficePortableLegacy75_7.5.9_MultilingualStandard.paf.exe",
                  ".paf.exe",
                  {"libreoffice", "libreofficeportable", ".paf.exe"}),
              Plain("download") >>
      [] t = "libreoffice" /\ p = "darwin" ->
           << Plain("https:"), Plain(""),
              Seg("www.libreoffice.org", "", {"libreoffice"}),
              Plain("donate"), Plain("dl"), Plain("mac-x86_64"),
              Plain("25.2.1"), Plain("en-US"),
              Seg("LibreOffice_25.2.1_MacOS_x86-64.dmg", ".dmg",
                  {"libreoffice"}) >>
      [] t = "libreoffice" /\ p = "linux" ->
           << Plain("https:"), Plain(""),
              Seg("www.libreoffice.org", "", {"libreoffice"}),
              Plain("donate"), Plain("dl"), Plain("deb-x86_64"),
              Plain("25.2.1"), Plain("en-US"),
              Seg("LibreOffice_25.2.1_Linux_x86-64_deb.tar.gz", ".tar.gz",
                  {"libreoffice"}) >>

\* "<substring>" in url.lower(), for the substrings download_file tests.
UrlHas(url, tag) == \E i \in 1..Len(url) : tag \in url[i].tags

\* An artifact name that does not depend on the URL.
ArchiveFilenameShared(url) == Plain("download")

\* archive_filename = url.split('/')[-1]; download_path = temp_dir / archive_filename
ArchiveFilename(url) == url[Len(url)]

\* The parts of the URL that name a PortableApps installer.
PortableParts(url) ==
    { i \in 1..Len(url) :
        "libreofficeportable" \in url[i].tags /\ ".paf.exe" \in url[i].tags }

\* First element of a non-empty set of indices.
MinOf(S) == CHOOSE i \in S : \A j \in S : i <= j

\* file_path of download_file: target_path, or for a SourceForge LibreOffice
\* URL the first part that names the PortableApps installer.
FilePath(url, target) ==
    IF UrlHas(url, "sourceforge.net") /\ UrlHas(url, "libreoffice")
          /\ PortableParts(url) # {}
    THEN url[MinOf(PortableParts(url))]
    ELSE target

\* Every file name an artifact can be stored under in temp/.
ArtifactNames ==
    UNION { { ArchiveFilename(Url(t, p)).text,
              FilePath(Url(t, p), ArchiveFilename(Url(t, p))).text } :
            t \in Tools, p \in Platforms }

(***************************************************************************)
(* File contents.  An artifact file is absent, empty (size 0), partial     *)
(* (some bytes, written by an attempt that failed or fell short) or whole. *)
(***************************************************************************)
Contents == {"absent", "empty", "partial", "whole"}

\* What an attempt that opened the file for writing leaves in it.
Written(err, total, got) ==
    IF got = 0 THEN "empty"
    ELSE IF err = "none" /\ (total = 0 \/ got = total) THEN "whole"
    ELSE "partial"

(***************************************************************************)
(* Names of files inside a scratch tree or an install directory.           *)
(***************************************************************************)
Name(stem, ext) == [stem |-> stem, ext |-> ext]

Entry(dir, stem, ext) == [dir |-> dir, name |-> Name(stem, ext)]

VARIABLES
    platform,      \* get_platform()
    supported,     \* the catalog tools with a URL for the platform
    files,         \* temp/<name>: content of each artifact file
    scratch,       \* temp/<tool>: absent, empty, or holding files
    installed,     \* portable_tools/<tool>/{bin,program}: {[dst, src]}
    ledger,        \* portable_tools/<tool>/version.json: version or "none"
    scope,         \* the tools this behaviour makes calls for
    elsewhere,     \* other places under portable_tools holding soffice.exe
    probed,        \* the return value of get_tool_path
    peer,          \* a second download_and_setup_tool call for the tool
    cancelledAt,   \* the stage at which ToolDownloadThread.cancel() was called
    updates,       \* the dictionary check_for_updates returned
    converters,    \* ConversionManager._converters, in the order of its values()
    mgrArgs,       \* the arguments of the ConversionManager.convert call made
    mgrRet,        \* what that call returned or raised
    source_dir,          \* the entries of batch_convert's source_dir
    patterns,      \* batch_convert's file_patterns
    all_files,     \* batch_convert: the files its loop has still to process
    resSuccessful,    \* batch_convert: results["successful"]
    resFailed,        \* batch_convert: results["failed"]
    batchLog,      \* the manager.convert calls of the loop, in order
    bpc,           \* batch_convert: idle, loop, ret
    download_in_progress, \* FirstRunDialog.download_in_progress
    download_threads,     \* the keys of FirstRunDialog.download_threads
    threadState,   \* the dialog's latest ToolDownloadThread: none, running, finished
    overlap,       \* a ToolDownloadThread was started while one was running
    queued,        \* download_finished signals not yet delivered to the slot
    finishedSeen,  \* runs of the download_finished slot since download_tool
    dialog,        \* the FirstRunDialog: open, closing (in accept), closed
    allAt,         \* download_all_tools: index of the tool of its loop, or 0
    allCb,         \* download_all_tools was passed a progress callback
    results,       \* download_all_tools: its results dictionary
    allLog,        \* the start and complete events its callback received
    pc,            \* position of the call in flight
    tool,          \* tool_name of the call in flight
    hasCb,         \* whether the caller passed a progress callback
    preInstalled,  \* the previous install of this tool returned True
    dfCaller,      \* who called download_file: install1, install2, direct
    dfForce,       \* force_download
    attempt,       \* loop variable of download_file
    dfRet,         \* download_file's return value: pending, path, None
    dfHit,         \* download_file returned from its cache check
    dfTrace,       \* outcome of each attempt of this download_file call
    dfReported,    \* latest (current, total) given to a bare call's callback
    netReqs,       \* session.get calls of the top-level call in flight
    netHead,       \* outcomes of the first two of them
    emitted,       \* the caller's callback received a progress event
    lastEvent,     \* the latest (stage, percent) it received
    extracted,     \* content of the file handed to extract_archive
    extractDir,    \* the files extract_archive unpacked into extract_dir
    organizeOk,    \* organize_success
    copiedAny,     \* the organize strategy made at least one copy
    copyRaised,    \* a copy of the organize strategy raised
    cleaned,       \* the clean-up step was reached
    wroteLedger,   \* this call wrote version.json
    result         \* the call's return value: pending, True, False, path, None

persistent == << platform, supported, files, scratch, installed, ledger >>

coreFrame == << converters, mgrArgs, mgrRet, source_dir, patterns, all_files,
               resSuccessful, resFailed, batchLog, bpc >>

guiFrame == << download_in_progress, download_threads, threadState, overlap,
              queued, finishedSeen, dialog >>

allFrame == << allAt, allCb, results, allLog >>

dfFrame == << dfCaller, dfForce, attempt, dfRet, dfHit, dfTrace, dfReported >>

frame == << pc, tool, hasCb, preInstalled, netReqs, netHead, emitted,
            lastEvent,
            extracted, extractDir, organizeOk, copiedAny, copyRaised, cleaned, wroteLedger, result >>

vars == << persistent, scope, coreFrame, guiFrame, allFrame, elsewhere, probed, peer, cancelledAt, updates, dfFrame, frame >>

NoEvent == << "none", 0 >>

NoPair == << 0, 0 >>

NoEntry == Entry("", "", "")

(***************************************************************************)
(* download_file                                                           *)
(***************************************************************************)
\* A cache check that never hits: every call goes to the network.
IsCacheHitNever(force, content) == FALSE

\* A cache check that ignores force_download.
IsCacheHitUnforced(force, content) ==
    content # "absent" /\ content # "empty"

\* The cache check: the file exists, is not empty, and no download is forced.
IsCacheHit(force, content) ==
    ~force /\ content # "absent" /\ content # "empty"

\* How an attempt is classified in the traces.
AttemptKind(err, total, got) ==
    IF err # "none" THEN err
    ELSE IF total > 0 /\ got # total THEN "mismatch"
    ELSE IF got = 0 THEN "empty"
    ELSE "ok"

\* A loop body that gives up on the first RequestException.
AttemptVerdictNoRetry(err, total, got, att) ==
    CASE err = "none" ->
           IF total > 0 /\ got # total /\ att < max_retries - 1
           THEN "retry" ELSE "path"
      [] OTHER -> "None"

\* A loop body that treats every exception as transient.
AttemptVerdictRetryAny(err, total, got, att) ==
    CASE err = "none" ->
           IF total > 0 /\ got # total /\ att < max_retries - 1
           THEN "retry" ELSE "path"
      [] OTHER ->
           IF att < max_retries - 1 THEN "retry" ELSE "None"

\* What the loop body does after attempt number att (from 0):
\* go round again, return file_path, or return None.
AttemptVerdict(err, total, got, att) ==
    CASE err = "none" ->
           IF total > 0 /\ got # total /\ att < max_retries - 1
           THEN "retry" ELSE "path"
      [] err = "request" ->
           IF att < max_retries - 1 THEN "retry" ELSE "None"
      [] err = "other" -> "None"

\* int(current * 100 / total)
Percent(current, total) == (current * 100) \div total

\* The call in flight is an install whose caller passed a callback.
Reports == hasCb /\ dfCaller # "direct"

TargetPath == ArchiveFilename(Url(tool, platform))

ActualPath == FilePath(Url(tool, platform), TargetPath)

\* The names under temp/ an install of t stores its artifact under:
\* download_path and the file_path download_file writes to.
ArtifactsOf(t) ==
    { ArchiveFilename(Url(t, platform)).text,
      FilePath(Url(t, platform), ArchiveFilename(Url(t, platform))).text }

\* extract_dir = temp_dir / tool_name
ScratchName(t) == t

\* Lines 647-664: the file name and the cache check.  On a hit
\* progress_callback(100, 100) is called: the caller's callback of a bare
\* call, or the lambda of an install, which forwards ("download", 100).
DownloadFileCheck ==
    /\ pc = "df_check"
    /\ IF IsCacheHit(dfForce, files[ActualPath.text])
       THEN /\ dfReported' = IF hasCb /\ dfCaller = "direct"
                             THEN << 100, 100 >> ELSE dfReported
            /\ emitted' = (emitted \/ Reports)
            /\ lastEvent' = IF Reports
                            THEN << "download", Percent(100, 100) >>
                            ELSE lastEvent
            /\ dfRet' = "path"
            /\ dfHit' = TRUE
            /\ pc' = "df_ret"
       ELSE /\ pc' = "df_loop"
            /\ UNCHANGED << dfReported, emitted, lastEvent, dfRet, dfHit >>
    /\ UNCHANGED << persistent, scope, coreFrame, guiFrame, allFrame, elsewhere, probed, peer, cancelledAt, updates, dfCaller, dfForce, attempt, dfTrace,
                    tool, hasCb, preInstalled, netReqs, netHead, extracted, extractDir,
                    organizeOk, copiedAny, copyRaised, cleaned, wroteLedger, result >>

\* Lines 666-711: one pass of the retry loop.  err is the exception the
\* attempt raises (none, a requests RequestException, or any other), opened
\* says whether the file was opened for writing before it, total is the
\* advertised content-length (0: no header) and got the bytes written, one
\* chunk each; progress is reported per chunk when total > 0.
DownloadFileAttempt(err, opened, total, got) ==
    /\ pc = "df_loop"
    /\ attempt < max_retries
    /\ err = "none" => opened
    /\ ~opened => (total = 0 /\ got = 0)
    /\ LET verdict == AttemptVerdict(err, total, got, attempt)
           reported == opened /\ total > 0 /\ got > 0
       IN  /\ files' = IF opened
                       THEN [files EXCEPT ![ActualPath.text] = Written(err, total, got)]
                       ELSE files
           /\ dfTrace' = Append(dfTrace, AttemptKind(err, total, got))
           /\ netReqs' = netReqs + 1
           /\ netHead' = IF Len(netHead) < 2
                         THEN Append(netHead, AttemptKind(err, total, got))
                         ELSE netHead
           /\ dfReported' = IF reported /\ hasCb /\ dfCaller = "direct"
                            THEN << got, total >> ELSE dfReported
           /\ emitted' = (emitted \/ (reported /\ Reports))
           /\ lastEvent' = IF reported /\ Reports
                           THEN << "download", Percent(got, total) >>
                           ELSE lastEvent
           /\ attempt' = attempt + 1
           /\ IF verdict = "retry" /\ attempt + 1 < max_retries
              THEN /\ pc' = "df_loop"
                   /\ dfRet' = dfRet
              ELSE /\ pc' = "df_ret"
                   /\ dfRet' = IF verdict = "path" THEN "path" ELSE "None"
    /\ UNCHANGED << platform, supported, scratch, installed, ledger, scope, coreFrame, guiFrame, allFrame, elsewhere, probed, peer, cancelledAt, updates,
                    dfCaller, dfForce, dfHit, tool, hasCb,
                    preInstalled, extracted, extractDir, organizeOk, copiedAny, copyRaised, cleaned, wroteLedger,
                    result >>

\* A bare call download_file(url, temp/<name>, cb, force_download = force)
\* for the URL of a catalog tool.
DownloadFileCall(t, force, cb) ==
    /\ pc = "idle"
    /\ t \in scope \cap supported
    /\ tool' = t
    /\ hasCb' = cb
    /\ dfCaller' = "direct"
    /\ dfForce' = force
    /\ pc' = "df_check"
    /\ UNCHANGED << persistent, scope, coreFrame, guiFrame, allFrame, elsewhere, probed, peer, cancelledAt, updates, attempt, dfRet, dfHit, dfTrace,
                    dfReported, preInstalled, netReqs, netHead, emitted, lastEvent,
                    extracted, extractDir, organizeOk, copiedAny, copyRaised, cleaned, wroteLedger, result >>

(***************************************************************************)
(* extract_archive                                                         *)
(***************************************************************************)
\* The branch extract_archive takes for a file name, by its suffix.
ExtractStrategy(path, p) ==
    CASE path.ext = ".paf.exe" -> "paf"
      [] path.ext = ".msi" -> "msi"
      [] path.ext = ".zip" -> "zip"
      [] path.ext \in {".tar.gz", ".tgz"} -> "targz"
      [] path.ext = ".tar.xz" -> "tarxz"
      [] path.ext = ".dmg" /\ p = "darwin" -> "dmg"
      [] OTHER -> "unsupported"

\* A dispatch in which every branch unpacks, disk images and unrecognized
\* files included.
CanExtractAnything(strategy) == TRUE

\* The branches that unpack anything.
CanExtract(strategy) == strategy \in {"paf", "msi", "zip", "targz", "tarxz"}

\* The branches that report progress per member.
ReportsMembers(strategy) == strategy \in {"zip", "targz", "tarxz"}

ExeSuffix(p) == IF p = "windows" THEN ".exe" ELSE ""

AppProgramDir == "App/libreoffice/program"

\* The files an upstream archive of tool t may hold; an archive holds any
\* subset of them.
TreeUniverse(t, p) ==
    CASE t = "ffmpeg" ->
           { Entry("bin", "ffmpeg", ExeSuffix(p)),
             Entry("bin", "ffprobe", ExeSuffix(p)),
             Entry("doc", "ffmpeg", ".txt") }
      [] t = "pandoc" ->
           { Entry("bin", "pandoc", ExeSuffix(p)),
             Entry("doc", "MANUAL", ".txt") }
      [] t = "libreoffice" /\ p = "windows" ->
           { Entry(AppProgramDir, "soffice", ".exe"),
             Entry(AppProgramDir, "sofficerc", ".ini"),
             Entry("other", "soffice", ".exe") }
      [] OTHER ->
           { Entry("DEBS", "libreoffice", ".deb"),
             Entry("opt/libreoffice/program", "soffice", "") }

\* Lines 129-158: the second download_file call has returned; return False
\* on None, else extract_archive(actual_download_path, extract_dir, ...).
\* ok is extract_archive's result and unpacked what it left in extract_dir
\* (all members of the archive, or the few unpacked before an error); the
\* member-wise strategies report progress after each member.
Extract(ok, unpacked) ==
    /\ pc = "df_ret"
    /\ dfCaller = "install2"
    /\ IF dfRet = "None"
       THEN /\ ~ok /\ unpacked = {}
            /\ result' = "False"
            /\ pc' = "done"
            /\ UNCHANGED << scratch, emitted, lastEvent, extracted, extractDir >>
       ELSE LET strategy == ExtractStrategy(ActualPath, platform)
                content == files[ActualPath.text]
                members == IF ok THEN Cardinality(unpacked)
                           ELSE Cardinality(TreeUniverse(tool, platform))
                reported == ReportsMembers(strategy) /\ unpacked # {} /\ Reports
            IN  /\ unpacked \subseteq TreeUniverse(tool, platform)
                /\ ok => (CanExtract(strategy) /\ content = "whole")
                /\ ~ok => Cardinality(unpacked) <= MaxDebris
                /\ (~CanExtract(strategy) \/ content # "whole") => unpacked = {}
                /\ extractDir' = unpacked
                /\ scratch' = IF unpacked # {}
                              THEN [scratch EXCEPT ![tool] = "files"]
                              ELSE scratch
                /\ emitted' = (emitted \/ reported)
                /\ lastEvent' = IF reported
                                THEN << "extract", Percent(Cardinality(unpacked), members) >>
                                ELSE lastEvent
                /\ extracted' = content
                /\ result' = IF ok THEN result ELSE "False"
                /\ pc' = IF ok THEN "organize" ELSE "done"
    /\ dfTrace' = << >>
    /\ attempt' = 0
    /\ UNCHANGED << platform, supported, files, installed, ledger, scope, coreFrame, guiFrame, allFrame, elsewhere, probed, peer, cancelledAt, updates,
                    dfCaller, dfForce, dfRet, dfHit, dfReported, tool, hasCb,
                    preInstalled, netReqs, netHead, organizeOk, copiedAny, copyRaised, cleaned,
                    wroteLedger >>

(***************************************************************************)
(* The organize strategies.  An install directory is a set of              *)
(* [dst, src]: the file named dst is a copy of the scratch entry src.      *)
(***************************************************************************)
Put(inst, dst, src) ==
    { r \in inst : r.dst # dst } \cup { [dst |-> dst, src |-> src] }

Exists(inst, name) == \E r \in inst : r.dst = name

Copy(src, dst) == [src |-> src, dst |-> dst]

\* The install directory after the first n copies of ops.
RECURSIVE Apply(_, _, _)
Apply(inst, ops, n) ==
    IF n = 0 THEN inst
    ELSE Put(Apply(inst, ops, n - 1), ops[n].dst, ops[n].src)

\* Every order in which the elements of S can be visited.
Orders(S) ==
    { f \in [1..Cardinality(S) -> S] :
        \A i, j \in 1..Cardinality(S) : i # j => f[i] # f[j] }

\* file.startswith(exe): a name is its stem followed by its extension, and
\* no stem of the model extends another.
StartsWith(name, exe) == name.stem = exe

FfmpegExes == << "ffmpeg", "ffprobe" >>

\* The copies organize_ffmpeg makes for a scratch tree.
FfmpegCopies(p, tree) ==
    IF p = "windows"
    THEN { Copy(e, Name(FfmpegExes[i], ".exe")) :
             e \in { x \in tree : \E k \in 1..2 : x.name = Name(FfmpegExes[k], ".exe") },
             i \in 1..2 }
         \cap { c \in [src : tree, dst : { Name(FfmpegExes[k], ".exe") : k \in 1..2 }] :
                  c.src.name = c.dst }
    ELSE { c \in [src : tree, dst : { Name(FfmpegExes[k], "") : k \in 1..2 }] :
             c.src.name = c.dst \/ StartsWith(c.src.name, c.dst.stem) }

ExeIndex(dst) == IF dst.stem = "ffmpeg" THEN 1 ELSE 2

\* The orders the walk can make the copies in: directories come in any
\* order; on Windows the glob from the top copies every ffmpeg.exe before
\* any ffprobe.exe, elsewhere the exe loop is the outer loop per directory.
FfmpegOrders(p, ops) ==
    { o \in Orders(ops) :
        \A i, j \in 1..Cardinality(ops) :
            (i < j /\ (p = "windows" \/ o[i].src.dir = o[j].src.dir))
                => ExeIndex(o[i].dst) <= ExeIndex(o[j].dst) }

\* What a strategy whose copies abort on the first error can end in: every
\* copy made (found); the k-th copy raised (the rest not made); on Windows
\* a copy repeated for a subdirectory raised after all were made once.
AbortingOutcomes(inst, orders, n, repeats) ==
    { [inst |-> Apply(inst, o, n), ok |-> n > 0, copied |-> n > 0,
       raised |-> FALSE] : o \in orders }
    \cup { [inst |-> Apply(inst, o, k - 1), ok |-> FALSE, copied |-> k > 1,
             raised |-> TRUE] : o \in orders, k \in 1..n }
    \cup { [inst |-> Apply(inst, o, n), ok |-> FALSE, copied |-> TRUE,
             raised |-> TRUE] : o \in { x \in orders : repeats /\ n > 0 } }

organize_ffmpeg(p, tree, inst) ==
    LET ops == FfmpegCopies(p, tree)
    IN  AbortingOutcomes(inst, FfmpegOrders(p, ops), Cardinality(ops),
                         p = "windows")

organize_pandoc(p, tree, inst) ==
    LET ops == { Copy(e, e.name) :
                   e \in { x \in tree : x.name = Name("pandoc", ExeSuffix(p)) } }
    IN  AbortingOutcomes(inst, Orders(ops), Cardinality(ops), FALSE)

\* The install directory after copying every entry of items under its own name.
CopyAll(inst, items) ==
    { r \in inst : \A e \in items : r.dst # e.name }
    \cup { [dst |-> e.name, src |-> e] : e \in items }

\* Lines 602-606: the final check of organize_libreoffice.
SofficePresent(p, inst) == Exists(inst, Name("soffice", ExeSuffix(p)))

\* The directories organize_libreoffice may copy from: the program
\* directory under App when it holds soffice.exe, else the directory of
\* the first soffice.exe the glob yields, else none.
LibreofficeSources(tree) ==
    IF Entry(AppProgramDir, "soffice", ".exe") \in tree
    THEN { { e \in tree : e.dir = AppProgramDir } }
    ELSE IF \E s \in tree : s.name = Name("soffice", ".exe")
    THEN { { e \in tree : e.dir = s.dir } :
             s \in { x \in tree : x.name = Name("soffice", ".exe") } }
    ELSE { {} }

\* failed: the items whose copy raised and was skipped.
organize_libreoffice(p, tree, inst) ==
    IF p = "windows"
    THEN { [inst |-> CopyAll(inst, items \ failed),
            ok |-> SofficePresent(p, CopyAll(inst, items \ failed)),
            copied |-> items \ failed # {},
            raised |-> items \cap failed # {}] :
             items \in LibreofficeSources(tree),
             failed \in SUBSET TreeUniverse("libreoffice", p) }
    ELSE { [inst |-> inst, ok |-> SofficePresent(p, inst), copied |-> FALSE,
            raised |-> FALSE] }

\* Lines 164-170: the strategy is selected by the tool's name.
OrganizeOutcomes(t, p, tree, inst) ==
    CASE t = "ffmpeg" -> organize_ffmpeg(p, tree, inst)
      [] t = "pandoc" -> organize_pandoc(p, tree, inst)
      [] t = "libreoffice" -> organize_libreoffice(p, tree, inst)
      [] OTHER -> { [inst |-> inst, ok |-> FALSE, copied |-> FALSE,
                     raised |-> FALSE] }

\* The entry-point executable of a tool in its canonical directory, as
\* the organize strategies name it.
CanonicalExe(t, p) ==
    CASE t = "ffmpeg" -> Name("ffmpeg", ExeSuffix(p))
      [] t = "pandoc" -> Name("pandoc", ExeSuffix(p))
      [] t = "libreoffice" -> Name("soffice", ExeSuffix(p))

ExePresent(t) == Exists(installed[t], CanonicalExe(t, platform))

NoRecord == [version |-> "none", platform |-> "none"]

\* The tool has a ledger record and its executable in place.
FullyInstalled(t) == ledger[t] # NoRecord /\ ExePresent(t)

(***************************************************************************)
(* The availability probe (src/utils/dependencies.py).  A location is a    *)
(* directory path below portable_tools.                                    *)
(***************************************************************************)
CanonicalDir(t) ==
    CASE t = "ffmpeg" -> "ffmpeg/bin"
      [] t = "pandoc" -> "pandoc/bin"
      [] t = "libreoffice" -> "libreoffice/program"

\* The second and third entry of possible_paths in get_libreoffice_path.
AlternatePaths ==
    { "libreoffice/App/libreoffice/program",
      "LibreOfficePortable/App/libreoffice/program" }

\* 'ffmpeg.exe' if os.name == 'nt' else 'ffmpeg'
get_ffmpeg_path ==
    IF Exists(installed["ffmpeg"], Name("ffmpeg", ExeSuffix(platform)))
    THEN CanonicalDir("ffmpeg") ELSE "None"

get_pandoc_path ==
    IF Exists(installed["pandoc"], Name("pandoc", ExeSuffix(platform)))
    THEN CanonicalDir("pandoc") ELSE "None"

\* The first of possible_paths that exists; each names soffice.exe.
get_libreoffice_path ==
    IF Exists(installed["libreoffice"], Name("soffice", ".exe"))
    THEN CanonicalDir("libreoffice")
    ELSE IF "libreoffice/App/libreoffice/program" \in elsewhere
    THEN "libreoffice/App/libreoffice/program"
    ELSE IF "LibreOfficePortable/App/libreoffice/program" \in elsewhere
    THEN "LibreOfficePortable/App/libreoffice/program"
    ELSE "None"

get_tool_path(t) ==
    CASE t = "ffmpeg" -> get_ffmpeg_path
      [] t = "pandoc" -> get_pandoc_path
      [] t = "libreoffice" -> get_libreoffice_path
      [] OTHER -> "None"

\* A call get_tool_path(t).
Probe(t) ==
    /\ pc = "idle"
    /\ tool' = t
    /\ probed' = get_tool_path(t)
    /\ pc' = "probe_ret"
    /\ UNCHANGED << persistent, scope, coreFrame, guiFrame, allFrame, elsewhere, peer, cancelledAt, updates,
                    dfFrame, hasCb, preInstalled, netReqs, netHead, emitted,
                    lastEvent, extracted, extractDir, organizeOk, copiedAny,
                    copyRaised, cleaned, wroteLedger, result >>

\* The path has been handed to the caller.
ProbeReturn ==
    /\ pc = "probe_ret"
    /\ tool' = UnknownTool
    /\ probed' = "pending"
    /\ pc' = "idle"
    /\ UNCHANGED << persistent, scope, coreFrame, guiFrame, allFrame, elsewhere, peer, cancelledAt, updates,
                    dfFrame, hasCb, preInstalled, netReqs, netHead, emitted,
                    lastEvent, extracted, extractDir, organizeOk, copiedAny,
                    copyRaised, cleaned, wroteLedger, result >>

(***************************************************************************)
(* get_installed_version and check_for_updates                             *)
(***************************************************************************)
\* A version.json that json.load cannot read, or that holds no object.
CorruptRecord == [version |-> "unreadable", platform |-> "none"]

\* Version strings a ledger may hold: the catalog's and those of earlier
\* catalogs.
KnownVersions == { CatalogVersion(t) : t \in Tools } \cup {"1.0", "1.1"}

\* The version.json files a tool directory may hold: none, an unreadable
\* one, an object without a "version" key, or a record of some version.
LedgerFiles ==
    { NoRecord, CorruptRecord }
    \cup [version : KnownVersions \cup {"None"}, platform : Platforms]

\* A reader that hands out whatever the version field holds, also for a
\* file that is missing or cannot be parsed.
get_installed_version_unguarded(t) == ledger[t].version

\* Lines 723-734: data.get("version"), or None when the file is missing or
\* cannot be read.
get_installed_version(t) ==
    IF ledger[t] \in { NoRecord, CorruptRecord } THEN "None"
    ELSE ledger[t].version

\* A call get_installed_version(t) for a catalog tool.
GetInstalledVersion(t) ==
    /\ pc = "idle"
    /\ t \in scope
    /\ tool' = t
    /\ result' = get_installed_version(t)
    /\ pc' = "giv_ret"
    /\ UNCHANGED << persistent, scope, coreFrame, guiFrame, allFrame, elsewhere, probed, peer,
                    cancelledAt, updates, dfFrame, hasCb, preInstalled,
                    netReqs, netHead, emitted, lastEvent, extracted,
                    extractDir, organizeOk, copiedAny, copyRaised, cleaned,
                    wroteLedger >>

\* The version has been handed to the caller.
GetInstalledVersionReturn ==
    /\ pc = "giv_ret"
    /\ tool' = UnknownTool
    /\ result' = "pending"
    /\ pc' = "idle"
    /\ UNCHANGED << persistent, scope, coreFrame, guiFrame, allFrame, elsewhere, probed, peer,
                    cancelledAt, updates, dfFrame, hasCb, preInstalled,
                    netReqs, netHead, emitted, lastEvent, extracted,
                    extractDir, organizeOk, copiedAny, copyRaised, cleaned,
                    wroteLedger >>

\* Python truth of an Optional[str].
Truthy(v) == v # "None" /\ v # ""

\* A comparison that reports an update for every installed tool.
VersionsDifferAlways(v, w) == TRUE

\* Line 748: installed_version != latest_version
VersionsDiffer(v, w) == v # w

\* Lines 743-760: the dictionary check_for_updates builds.
check_for_updates ==
    [t \in Tools |->
        LET installed_version == get_installed_version(t)
            latest_version == CatalogVersion(t)
        IN  IF Truthy(installed_version)
            THEN [installed |-> installed_version,
                  latest |-> latest_version,
                  update_available |->
                      VersionsDiffer(installed_version, latest_version)]
            ELSE [installed |-> "None",
                  latest |-> latest_version,
                  update_available |-> FALSE]]

NoUpdates ==
    [t \in Tools |->
        [installed |-> "None", latest |-> "none", update_available |-> FALSE]]

\* A call of check_for_updates().
CheckForUpdates ==
    /\ pc = "idle"
    /\ updates' = check_for_updates
    /\ pc' = "cfu_ret"
    /\ UNCHANGED << persistent, scope, coreFrame, guiFrame, allFrame, elsewhere, probed, peer, cancelledAt, dfFrame, tool, hasCb, preInstalled,
                    netReqs, netHead, emitted, lastEvent, extracted,
                    extractDir, organizeOk, copiedAny, copyRaised, cleaned, wroteLedger,
                    result >>

\* The dictionary has been handed to the caller.
CheckForUpdatesReturn ==
    /\ pc = "cfu_ret"
    /\ updates' = NoUpdates
    /\ pc' = "idle"
    /\ UNCHANGED << persistent, scope, coreFrame, guiFrame, allFrame, elsewhere, probed, peer, cancelledAt, dfFrame, tool, hasCb, preInstalled,
                    netReqs, netHead, emitted, lastEvent, extracted,
                    extractDir, organizeOk, copiedAny, copyRaised, cleaned, wroteLedger,
                    result >>

(***************************************************************************)
(* download_and_setup_tool                                                 *)
(***************************************************************************)
\* A platform check that looks the tool up but not its URL.
IsSupportedAnyPlatform(t) == t \in Tools

\* Lines 88-97: the tool is a key of the catalog and has a URL.
IsSupported(t) == t \in Tools /\ t \in supported

\* A scratch directory that is created if missing and otherwise kept as
\* it is.
FreshScratchKept(old) == IF old = "absent" THEN "empty" ELSE old

\* Lines 108-111: extract_dir is removed if it exists, then created.
FreshScratch(old) == "empty"

\* Lines 88-127: the platform check, the directories, the first
\* progress event and the first call of download_file.
Start(t, cb) ==
    /\ pc = "idle"
    /\ t \in scope \cup { UnknownTool }
    /\ tool' = t
    /\ hasCb' = cb
    /\ IF ~IsSupported(t)
       THEN /\ result' = "False"
            /\ pc' = "done"
            /\ UNCHANGED << scratch, emitted, lastEvent, dfCaller,
                            preInstalled >>
       ELSE /\ scratch' = [scratch EXCEPT ![t] = FreshScratch(scratch[t])]
            /\ preInstalled' = FullyInstalled(t)
            /\ emitted' = cb
            /\ lastEvent' = IF cb THEN << "download", 0 >> ELSE lastEvent
            /\ dfCaller' = "install1"
            /\ pc' = "df_check"
            /\ result' = result
    /\ UNCHANGED << platform, supported, files, installed, ledger, scope, coreFrame, guiFrame, allFrame, elsewhere, probed, peer, cancelledAt, updates,
                    dfForce, attempt, dfRet, dfHit, dfTrace, dfReported,
                    netReqs, netHead, extracted, extractDir, organizeOk, copiedAny, copyRaised, cleaned, wroteLedger >>

\* Lines 129-147: the first download_file call has returned; return False
\* on None, else report ("extract", 0) and call download_file again.
AfterFirstDownload ==
    /\ pc = "df_ret"
    /\ dfCaller = "install1"
    /\ IF dfRet = "None"
       THEN /\ result' = "False"
            /\ pc' = "done"
            /\ UNCHANGED << emitted, lastEvent, dfFrame >>
       ELSE /\ emitted' = (emitted \/ hasCb)
            /\ lastEvent' = IF hasCb THEN << "extract", 0 >> ELSE lastEvent
            /\ dfCaller' = "install2"
            /\ attempt' = 0
            /\ dfRet' = "pending"
            /\ dfHit' = FALSE
            /\ dfTrace' = << >>
            /\ pc' = "df_check"
            /\ UNCHANGED << dfForce, dfReported, result >>
    /\ UNCHANGED << persistent, scope, coreFrame, guiFrame, allFrame, elsewhere, probed, peer, cancelledAt, updates, tool, hasCb, preInstalled, netReqs, netHead,
                    extracted, extractDir, organizeOk, copiedAny, copyRaised, cleaned, wroteLedger >>

\* Lines 160-173: the organize stage and its two progress events.
Organize ==
    /\ pc = "organize"
    /\ \E o \in OrganizeOutcomes(tool, platform, extractDir, installed[tool]) :
          /\ installed' = [installed EXCEPT ![tool] = o.inst]
          /\ organizeOk' = o.ok
          /\ copiedAny' = o.copied
          /\ copyRaised' = o.raised
          /\ lastEvent' = IF hasCb
                          THEN << "organize", IF o.ok THEN 100 ELSE 0 >>
                          ELSE lastEvent
    /\ emitted' = (emitted \/ hasCb)
    /\ pc' = "cleanup"
    /\ UNCHANGED << platform, supported, files, scratch, ledger, scope, coreFrame, guiFrame, allFrame, elsewhere, probed, peer, cancelledAt, updates,
                    dfFrame, tool, hasCb, preInstalled, netReqs, netHead, extracted, extractDir,
                    cleaned, wroteLedger, result >>

\* A clean-up whose errors leave download_and_setup_tool.
AfterCleanupPropagates(raised) == IF raised = "none" THEN "record" ELSE "done"

\* Lines 181-182: an exception of the clean-up is printed and the call
\* goes on to the version record.
AfterCleanup(raised) == "record"

\* Lines 175-182: the clean-up step.  raised names the call that raised
\* (none, unlink, rmtree); the error is printed and swallowed.
Cleanup(raised) ==
    /\ pc = "cleanup"
    /\ raised = "unlink" => files[TargetPath.text] # "absent"
    /\ raised = "rmtree" => scratch[tool] # "absent"
    /\ files' = IF raised = "unlink" THEN files
                ELSE [files EXCEPT ![TargetPath.text] = "absent"]
    /\ scratch' = IF raised = "none"
                  THEN [scratch EXCEPT ![tool] = "absent"]
                  ELSE scratch
    /\ cleaned' = TRUE
    /\ pc' = AfterCleanup(raised)
    /\ UNCHANGED << platform, supported, installed, ledger, scope, coreFrame, guiFrame, allFrame, elsewhere, probed, peer, cancelledAt, updates, dfFrame,
                    tool, hasCb, preInstalled, netReqs, netHead, emitted, lastEvent,
                    extracted, extractDir, organizeOk, copiedAny, copyRaised, wroteLedger, result >>

\* A record that names the version of an earlier catalog.
LedgerRecordStale(t) == [version |-> "1.0", platform |-> platform]

\* Lines 193-197: the record json.dump writes (install_date left out).
LedgerRecord(t) == [version |-> CatalogVersion(t), platform |-> platform]

\* A record step that writes version.json whatever organize returned.
WritesLedgerAlways == TRUE

\* Line 185: if organize_success
WritesLedger == organizeOk

\* Lines 184-199: version.json is written when organize succeeded, and
\* organize_success is returned.
Record ==
    /\ pc = "record"
    /\ ledger' = IF WritesLedger
                 THEN [ledger EXCEPT ![tool] = LedgerRecord(tool)]
                 ELSE ledger
    /\ wroteLedger' = WritesLedger
    /\ result' = IF organizeOk THEN "True" ELSE "False"
    /\ pc' = "done"
    /\ UNCHANGED << platform, supported, files, scratch, installed, scope, coreFrame, guiFrame, allFrame, elsewhere, probed, peer, cancelledAt, updates,
                    dfFrame, tool, hasCb, preInstalled, netReqs, netHead, emitted,
                    lastEvent, extracted, extractDir, organizeOk, copiedAny, copyRaised, cleaned >>

\* Lines 102-111 raise: ensure_directories, tool_dir.mkdir, the rmtree of
\* a scratch directory an earlier call left, or extract_dir.mkdir fails
\* with an OSError.  No try-block encloses them, so the exception leaves
\* download_and_setup_tool before the first progress event.
StartRaises(t, cb) ==
    /\ pc = "idle"
    /\ t \in scope
    /\ IsSupported(t)
    /\ tool' = t
    /\ hasCb' = cb
    /\ result' = "raised"
    /\ pc' = "done"
    /\ UNCHANGED << persistent, scope, coreFrame, guiFrame, allFrame, elsewhere, probed, peer, cancelledAt,
                    updates, dfFrame, preInstalled, netReqs, netHead, emitted,
                    lastEvent, extracted, extractDir, organizeOk, copiedAny,
                    copyRaised, cleaned, wroteLedger >>

\* Lines 192-197 raise: open(version_file, 'w') fails and leaves the file
\* as it was, or json.dump fails after open has truncated it.  No
\* try-block encloses them.
RecordRaises(truncated) ==
    /\ pc = "record"
    /\ organizeOk
    /\ ledger' = IF truncated
                 THEN [ledger EXCEPT ![tool] = CorruptRecord]
                 ELSE ledger
    /\ wroteLedger' = truncated
    /\ result' = "raised"
    /\ pc' = "done"
    /\ UNCHANGED << platform, supported, files, scratch, installed, scope, coreFrame, guiFrame, allFrame,
                    elsewhere, probed, peer, cancelledAt, updates, dfFrame,
                    tool, hasCb, preInstalled, netReqs, netHead, emitted,
                    lastEvent, extracted, extractDir, organizeOk, copiedAny,
                    copyRaised, cleaned >>

\* The frame of a call that has returned is discarded.
DiscardFrame ==
    /\ tool' = UnknownTool
    /\ hasCb' = FALSE
    /\ preInstalled' = FALSE
    /\ dfCaller' = "none"
    /\ dfForce' = FALSE
    /\ attempt' = 0
    /\ dfRet' = "pending"
    /\ dfHit' = FALSE
    /\ dfTrace' = << >>
    /\ dfReported' = NoPair
    /\ netReqs' = 0
    /\ netHead' = << >>
    /\ emitted' = FALSE
    /\ lastEvent' = NoEvent
    /\ extracted' = "absent"
    /\ extractDir' = {}
    /\ organizeOk' = FALSE
    /\ copiedAny' = FALSE
    /\ copyRaised' = FALSE
    /\ cleaned' = FALSE
    /\ wroteLedger' = FALSE
    /\ result' = "pending"
    /\ cancelledAt' = "no"

Discard == pc' = "idle" /\ DiscardFrame

\* download_and_setup_tool has returned result to its caller.
Return ==
    /\ pc = "done"
    /\ Discard
    /\ UNCHANGED << persistent, scope, coreFrame, guiFrame, allFrame, elsewhere, probed, peer, updates >>

\* A bare download_file call hands dfRet to its caller; its frame is
\* discarded.
DownloadFileReturn ==
    /\ dfCaller = "direct"
    /\ pc = "df_ret"
    /\ Discard
    /\ UNCHANGED << persistent, scope, coreFrame, guiFrame, allFrame, elsewhere, probed, peer, updates >>

(***************************************************************************)
(* download_all_tools                                                      *)
(***************************************************************************)
\* for tool_name in TOOL_VERSIONS: the keys in the order of the literal.
CatalogOrder == << "ffmpeg", "pandoc", "libreoffice" >>

\* results = {}
NoResults == [t \in Tools |-> "absent"]

\* A complete event that reports 100 whatever the install returned.
CompletePercentAlways(success) == 100

\* Line 789: 100 if success else 0
CompletePercent(success) == IF success THEN 100 ELSE 0

\* The start event of the iteration for CatalogOrder[i], when a callback
\* was passed and the loop has not ended.
StartEvent(cb, i) ==
    IF cb /\ i <= Len(CatalogOrder)
    THEN << << CatalogOrder[i], "start", 0 >> >>
    ELSE << >>

\* Lines 774-778: a call download_all_tools(cb) enters its loop and
\* reports the start of the first tool.
DownloadAllTools(cb) ==
    /\ pc = "idle"
    /\ allAt = 0
    /\ allAt' = 1
    /\ allCb' = cb
    /\ results' = NoResults
    /\ allLog' = StartEvent(cb, 1)
    /\ UNCHANGED << persistent, scope, coreFrame, guiFrame, elsewhere, probed, peer, cancelledAt,
                    updates, dfFrame, frame >>

\* Lines 780-784: the loop calls download_and_setup_tool with a lambda, so
\* the install always has a callback.
CallInstall ==
    /\ allAt \in 1..Len(CatalogOrder)
    /\ Start(CatalogOrder[allAt], TRUE)

\* Lines 786-789 and 776-778: the install has returned; its result is
\* stored, complete is reported, and the loop reports the start of the
\* next tool or ends.
AllCollect ==
    /\ pc = "done"
    /\ allAt \in 1..Len(CatalogOrder)
    /\ results' = [results EXCEPT ![tool] = result]
    /\ allLog' = allLog
                  \o (IF allCb
                      THEN << << tool, "complete",
                                 CompletePercent(result = "True") >> >>
                      ELSE << >>)
                  \o StartEvent(allCb, allAt + 1)
    /\ allAt' = allAt + 1
    /\ pc' = IF allAt < Len(CatalogOrder) THEN "idle" ELSE "all_ret"
    /\ DiscardFrame
    /\ UNCHANGED << persistent, scope, coreFrame, guiFrame, elsewhere, probed, peer, updates,
                    allCb >>

\* Line 791: return results.
AllReturn ==
    /\ pc = "all_ret"
    /\ allAt' = 0
    /\ allCb' = FALSE
    /\ results' = NoResults
    /\ allLog' = << >>
    /\ pc' = "idle"
    /\ UNCHANGED << persistent, scope, coreFrame, guiFrame, elsewhere, probed, peer, cancelledAt,
                    updates, dfFrame, tool, hasCb, preInstalled, netReqs,
                    netHead, emitted, lastEvent, extracted, extractDir,
                    organizeOk, copiedAny, copyRaised, cleaned, wroteLedger,
                    result >>

(***************************************************************************)
(* Installs started by the dialog (src/gui/first_run_dialog.py) while      *)
(* another thread or process calls download_and_setup_tool.                *)
(***************************************************************************)
\* The stage of the pipeline the install in flight is in, by the progress
\* events that open the stages.
Stage ==
    CASE pc \in {"df_check", "df_loop", "df_ret"} /\ dfCaller = "install1"
           -> "download"
      [] pc \in {"df_check", "df_loop", "df_ret"} /\ dfCaller = "install2"
           -> "extract"
      [] pc \in {"organize", "cleanup", "record"} -> pc
      [] OTHER -> "none"

\* ToolDownloadThread.cancel(): self.is_cancelled = True, while run() is
\* inside download_and_setup_tool.
Cancel ==
    /\ Stage # "none"
    /\ hasCb
    /\ cancelledAt = "no"
    /\ cancelledAt' = Stage
    /\ UNCHANGED << persistent, scope, coreFrame, guiFrame, allFrame, elsewhere, probed, peer, updates, dfFrame, frame >>

\* A second call download_and_setup_tool(t), made from another thread or
\* process (python tool_downloader.py --tool t), passes the platform check
\* and lines 107-111: it removes and recreates temp/<t>.
PeerStart(t) ==
    /\ peer = "none"
    /\ t \in scope \cap supported
    /\ peer' = "running"
    /\ scratch' = [scratch EXCEPT ![t] = FreshScratch(scratch[t])]
    /\ extractDir' = {}
    /\ UNCHANGED << platform, supported, files, installed, ledger, scope, coreFrame, guiFrame, allFrame, elsewhere, probed,
                    cancelledAt, updates, dfFrame, pc, tool, hasCb,
                    preInstalled, netReqs, netHead, emitted, lastEvent,
                    extracted, organizeOk, copiedAny, copyRaised, cleaned, wroteLedger,
                    result >>

\* The second call returns; it is followed no further than a download
\* that fails before a byte is written (lines 129-130).
PeerReturn ==
    /\ peer = "running"
    /\ peer' = "none"
    /\ UNCHANGED << persistent, scope, coreFrame, guiFrame, allFrame, elsewhere, probed, cancelledAt, updates, dfFrame, frame >>

\* ---------------------------------------------------------------------
\* gui/first_run_dialog.py: FirstRunDialog and its ToolDownloadThread.
\* The install actions above are the thread's call of
\* download_and_setup_tool; the handlers below run in the GUI thread.

\* A mutation of FlagOnStart: download_tool leaves the flag as it was.
FlagOnStartUnset == FALSE

\* download_tool, line 382: self.download_in_progress = True, before
\* the thread is created and started (lines 385-390).
FlagOnStart == TRUE

\* ToolDownloadThread.run(), lines 74-90: the download_finished signals
\* it emits once download_and_setup_tool(t) has returned res or raised.
FinishedSignal(t, res, cancelled) ==
    IF cancelled THEN << >>
    ELSE << [tool |-> t, success |-> res = "True"] >>

\* FirstRunDialog.download_tool(t), called by a button or by
\* on_download_status_updated.  While download_in_progress it warns and
\* returns (lines 369-372).
DownloadTool(t) ==
    /\ dialog = "open"
    /\ t \in scope
    /\ IF download_in_progress
         THEN UNCHANGED guiFrame
         ELSE /\ download_in_progress' = FlagOnStart
              /\ download_threads' = download_threads \cup { t }
              /\ IF threadState = "running"
                   THEN overlap' = TRUE /\ UNCHANGED threadState
                   ELSE threadState' = "running" /\ UNCHANGED overlap
              /\ finishedSeen' = 0
              /\ UNCHANGED << queued, dialog >>
    /\ UNCHANGED << persistent, scope, coreFrame, allFrame, elsewhere, probed, peer,
                    cancelledAt, updates, dfFrame, frame >>

\* ToolDownloadThread.run() enters download_and_setup_tool with its
\* progress lambda (lines 77-82), or the call raises at once.
ThreadRun ==
    /\ threadState = "running"
    /\ \E t \in download_threads : Start(t, TRUE) \/ StartRaises(t, TRUE)

\* run() leaves the try statement (lines 84-90) and the thread ends.
ThreadFinish ==
    /\ threadState = "running"
    /\ pc = "done"
    /\ queued' = queued \o FinishedSignal(tool, result, cancelledAt # "no")
    /\ threadState' = "finished"
    /\ Discard
    /\ UNCHANGED << persistent, scope, coreFrame, allFrame, elsewhere, probed, peer, updates,
                    download_in_progress, download_threads, overlap,
                    finishedSeen, dialog >>

\* The slot FirstRunDialog.download_finished(tool_name, success), lines
\* 398-423, run by the event loop for a queued signal.
DownloadFinished ==
    /\ dialog # "closing"
    /\ queued # << >>
    /\ queued' = Tail(queued)
    /\ download_threads' = download_threads \ { Head(queued).tool }
    /\ download_in_progress' = FALSE
    /\ finishedSeen' = IF finishedSeen < 2 THEN finishedSeen + 1 ELSE 2
    /\ UNCHANGED << persistent, scope, coreFrame, allFrame, elsewhere, probed, peer,
                    cancelledAt, updates, dfFrame, frame,
                    threadState, overlap, dialog >>

\* FirstRunDialog.accept(), lines 491-496: a running thread is cancelled
\* and the GUI thread waits for it.
Accept ==
    /\ dialog = "open"
    /\ dialog' = "closing"
    /\ cancelledAt' = IF threadState = "running" THEN Stage ELSE cancelledAt
    /\ UNCHANGED << persistent, scope, coreFrame, allFrame, elsewhere, probed, peer,
                    updates, dfFrame, frame,
                    download_in_progress, download_threads, threadState,
                    overlap, queued, finishedSeen >>

\* accept(), lines 496-500: thread.wait() has returned; the settings are
\* saved and the dialog closes.
AcceptDone ==
    /\ dialog = "closing"
    /\ threadState # "running"
    /\ dialog' = "closed"
    /\ UNCHANGED << persistent, scope, coreFrame, allFrame, elsewhere, probed, peer,
                    cancelledAt, updates, dfFrame, frame,
                    download_in_progress, download_threads, threadState,
                    overlap, queued, finishedSeen >>

\* ---------------------------------------------------------------------
\* core/manager.py and core/batch.py.

\* The most entries of a source directory, and patterns of one call.
MaxEntries == 3
MaxPatterns == 2

Names == { "first", "second" }

\* Suffixes without their dot, and target formats, in both cases.
Formats == { "jpg", "JPG", "png", "pdf", "PDF", "" }

\* str.lower() on Formats.
Lower(f) ==
    CASE f = "JPG" -> "jpg"
      [] f = "PDF" -> "pdf"
      [] OTHER -> f

\* Converters by their _supported_input_formats and
\* _supported_output_formats (converters/base.py, lines 12-13).
Converters ==
    { [inputs |-> {"jpg"}, outputs |-> {"pdf"}],
      [inputs |-> {"jpg", "png"}, outputs |-> {"pdf", "png"}],
      [inputs |-> {"pdf"}, outputs |-> {"jpg"}] }

\* BaseConverter.can_convert, converters/base.py lines 25-37.
can_convert(c, source_format, target_format) ==
    /\ Lower(source_format) \in c.inputs
    /\ Lower(target_format) \in c.outputs

\* register_converter, lines 16-20: self._converters[name] = converter.
\* A dict keeps a key that is assigned again at its place.
register_converter(reg, name, c) ==
    IF \E i \in 1..Len(reg) : reg[i].name = name
    THEN [i \in 1..Len(reg) |->
            IF reg[i].name = name THEN [name |-> name, conv |-> c] ELSE reg[i]]
    ELSE Append(reg, [name |-> name, conv |-> c])

\* The places in reg of the converters that can convert.
Able(reg, sf, tf) ==
    { i \in 1..Len(reg) : can_convert(reg[i].conv, sf, tf) }

\* A mutation of find_converter: the last converter that can convert.
find_converter_last(reg, sf, tf) ==
    IF Able(reg, sf, tf) = {} THEN 0
    ELSE CHOOSE i \in Able(reg, sf, tf) : \A j \in Able(reg, sf, tf) : j <= i

\* find_converter, lines 22-29: the place of the first converter of
\* _converters.values() that can convert, 0 for None.
find_converter(reg, sf, tf) ==
    IF Able(reg, sf, tf) = {} THEN 0
    ELSE CHOOSE i \in Able(reg, sf, tf) : \A j \in Able(reg, sf, tf) : i <= j

NoCall == [kind |-> "none"]

\* Path.with_suffix("." + f), line 64.
with_suffix(path, f) == [path EXCEPT !.suffix = f]

\* What converter.convert does (line 67): it returns True or False, or
\* raises ConverterError as the converters of this repository do.
Outcomes == { "True", "False", "ConverterError" }

\* ConversionManager.convert, lines 50-72, on a path that exists or not,
\* when the chosen converter's convert ends in outcome.
convert(reg, path, exists, target_format, outcome) ==
    IF ~exists
    THEN [kind |-> "FileNotFoundError"]
    ELSE LET source_format == Lower(path.suffix)
             tf == Lower(target_format)
             converter == find_converter(reg, source_format, tf)
         IN  IF converter = 0
             THEN [kind |-> "UnsupportedFormatError"]
             ELSE IF outcome = "True"
                  THEN [kind |-> "return", by |-> reg[converter].name,
                        path |-> with_suffix(path, tf)]
                  ELSE [kind |-> "ConverterError",
                        by |-> reg[converter].name]

\* The paths convert is called with.
Paths == [stem : {"a", "b"}, suffix : Formats]

RegisterConverter(name, c) ==
    /\ mgrArgs = NoCall
    /\ bpc = "idle"
    /\ converters' = register_converter(converters, name, c)
    /\ UNCHANGED << persistent, scope, guiFrame, allFrame, elsewhere, probed,
                    peer, cancelledAt, updates, dfFrame, frame,
                    mgrArgs, mgrRet, source_dir, patterns, all_files, resSuccessful,
                    resFailed, batchLog, bpc >>

ManagerConvert(path, exists, target_format, outcome) ==
    /\ mgrArgs = NoCall
    /\ bpc = "idle"
    /\ mgrArgs' = [kind |-> "convert", path |-> path, exists |-> exists,
                   target_format |-> target_format, outcome |-> outcome]
    /\ mgrRet' = convert(converters, path, exists, target_format, outcome)
    /\ UNCHANGED << persistent, scope, guiFrame, allFrame, elsewhere, probed,
                    peer, cancelledAt, updates, dfFrame, frame,
                    converters, source_dir, patterns, all_files, resSuccessful,
                    resFailed, batchLog, bpc >>

\* The caller has the result of convert.
ManagerReturn ==
    /\ mgrArgs # NoCall
    /\ bpc = "idle"
    /\ mgrArgs' = NoCall
    /\ mgrRet' = NoCall
    /\ UNCHANGED << persistent, scope, guiFrame, allFrame, elsewhere, probed,
                    peer, cancelledAt, updates, dfFrame, frame,
                    converters, source_dir, patterns, all_files, resSuccessful,
                    resFailed, batchLog, bpc >>

\* The entries a source directory may hold: regular files and a
\* directory whose name has a suffix.
Entries ==
    { [stem |-> "a", suffix |-> "jpg", is_file |-> TRUE],
      [stem |-> "b", suffix |-> "jpg", is_file |-> TRUE],
      [stem |-> "c", suffix |-> "png", is_file |-> TRUE],
      [stem |-> "d", suffix |-> "jpg", is_file |-> FALSE] }

Patterns == { "*.*", "*.jpg", "*.png" }

\* Path.glob(pattern) on one entry of the directory.
Matches(pattern, e) ==
    CASE pattern = "*.*" -> e.suffix # ""
      [] pattern = "*.jpg" -> e.suffix = "jpg"
      [] pattern = "*.png" -> e.suffix = "png"

\* The orders in which a set may be listed.
RECURSIVE Orderings(_)
Orderings(S) ==
    IF S = {} THEN { << >> }
    ELSE UNION { { << e >> \o o : o \in Orderings(S \ { e }) } : e \in S }

\* Path.glob(pattern), line 47: the entries that match, in the order
\* in which the directory lists them.
RECURSIVE Glob(_, _)
Glob(listing, pattern) ==
    IF listing = << >> THEN << >>
    ELSE (IF Matches(pattern, Head(listing)) THEN << Head(listing) >>
          ELSE << >>) \o Glob(Tail(listing), pattern)

\* Lines 45-48: the matches of every pattern, one pattern after the
\* other.
RECURSIVE Globbed(_, _)
Globbed(listing, pats) ==
    IF pats = << >> THEN << >>
    ELSE Glob(listing, Head(pats)) \o Globbed(listing, Tail(pats))

Range(seq) == { seq[i] : i \in 1..Len(seq) }

IsFile(e) == e.is_file

\* A mutation of Listed: the duplicates are kept.
ListedWithDuplicates(matched) == { SelectSeq(matched, IsFile) }

\* Line 51: list(set([f for f in all_files if f.is_file()])), in any
\* of the orders a set may be listed in.
Listed(matched) == Orderings({ e \in Range(matched) : e.is_file })

\* Lines 41-42.
EffectivePatterns(pats) == IF pats = << >> THEN << "*.*" >> ELSE pats

\* batch_convert, lines 31-57: up to the loop.
BatchConvert(entries, pats) ==
    /\ bpc = "idle"
    /\ mgrArgs = NoCall
    /\ source_dir' = entries
    /\ patterns' = pats
    /\ \E listing \in Orderings(entries) :
         all_files' \in Listed(Globbed(listing, EffectivePatterns(pats)))
    /\ resSuccessful' = << >>
    /\ resFailed' = << >>
    /\ batchLog' = << >>
    /\ bpc' = "loop"
    /\ UNCHANGED << persistent, scope, guiFrame, allFrame, elsewhere, probed,
                    peer, cancelledAt, updates, dfFrame, frame,
                    converters, mgrArgs, mgrRet >>

\* One turn of the loop, lines 60-69: manager.convert on the next file,
\* which another process may have removed since the glob.
BatchStep(exists, target_format, outcome) ==
    /\ bpc = "loop"
    /\ all_files # << >>
    /\ LET source_path == Head(all_files)
           ret == convert(converters,
                          [stem |-> source_path.stem,
                           suffix |-> source_path.suffix],
                          exists, target_format, outcome)
       IN  /\ IF ret.kind = "return"
              THEN /\ resSuccessful' = Append(resSuccessful, source_path)
                   /\ UNCHANGED resFailed
              ELSE /\ resFailed' = Append(resFailed, source_path)
                   /\ UNCHANGED resSuccessful
           /\ batchLog' = Append(batchLog,
                                 [file |-> source_path, kind |-> ret.kind])
    /\ all_files' = Tail(all_files)
    /\ UNCHANGED << persistent, scope, guiFrame, allFrame, elsewhere, probed,
                    peer, cancelledAt, updates, dfFrame, frame,
                    converters, mgrArgs, mgrRet, source_dir, patterns, bpc >>

\* Line 71: return results.
BatchLoopEnd ==
    /\ bpc = "loop"
    /\ all_files = << >>
    /\ bpc' = "ret"
    /\ UNCHANGED << persistent, scope, guiFrame, allFrame, elsewhere, probed,
                    peer, cancelledAt, updates, dfFrame, frame,
                    converters, mgrArgs, mgrRet, source_dir, patterns, all_files,
                    resSuccessful, resFailed, batchLog >>

\* The caller has the results.
BatchReturn ==
    /\ bpc = "ret"
    /\ bpc' = "idle"
    /\ source_dir' = {}
    /\ patterns' = << >>
    /\ resSuccessful' = << >>
    /\ resFailed' = << >>
    /\ batchLog' = << >>
    /\ UNCHANGED << persistent, scope, guiFrame, allFrame, elsewhere, probed,
                    peer, cancelledAt, updates, dfFrame, frame,
                    converters, mgrArgs, mgrRet, all_files >>

\* The catalogs a deployment may ship: every tool has a URL for the
\* platform, or one tool has none.
Catalogs == { Tools } \cup { Tools \ { t } : t \in Tools }

\* One behaviour makes its calls for one tool (and for the unknown name).
OneTool ==
    /\ scope \in { { t } : t \in Tools }
    /\ supported \in { c \in Catalogs : Tools \ c \subseteq scope }

\* Nothing is downloaded yet and no call is in flight.
Fresh ==
    /\ platform \in Platforms
    /\ files = [n \in ArtifactNames |-> "absent"]
    /\ scratch = [t \in Tools |-> "absent"]
    /\ updates = NoUpdates
    /\ converters = << >>
    /\ mgrArgs = NoCall
    /\ mgrRet = NoCall
    /\ source_dir = {}
    /\ patterns = << >>
    /\ all_files = << >>
    /\ resSuccessful = << >>
    /\ resFailed = << >>
    /\ batchLog = << >>
    /\ bpc = "idle"
    /\ download_in_progress = FALSE
    /\ download_threads = {}
    /\ threadState = "none"
    /\ overlap = FALSE
    /\ queued = << >>
    /\ finishedSeen = 0
    /\ dialog = "open"
    /\ allAt = 0
    /\ allCb = FALSE
    /\ results = NoResults
    /\ allLog = << >>
    /\ probed = "pending"
    /\ peer = "none"
    /\ cancelledAt = "no"
    /\ pc = "idle"
    /\ tool = UnknownTool
    /\ hasCb = FALSE
    /\ preInstalled = FALSE
    /\ dfCaller = "none"
    /\ dfForce = FALSE
    /\ attempt = 0
    /\ dfRet = "pending"
    /\ dfHit = FALSE
    /\ dfTrace = << >>
    /\ dfReported = NoPair
    /\ netReqs = 0
    /\ netHead = << >>
    /\ emitted = FALSE
    /\ lastEvent = NoEvent
    /\ extracted = "absent"
    /\ extractDir = {}
    /\ organizeOk = FALSE
    /\ copiedAny = FALSE
    /\ copyRaised = FALSE
    /\ cleaned = FALSE
    /\ wroteLedger = FALSE
    /\ result = "pending"

\* Nothing is installed and no ledger is written yet.
Init ==
    /\ Fresh
    /\ OneTool
    /\ installed = [t \in Tools |-> {}]
    /\ elsewhere = {}
    /\ ledger = [t \in Tools |-> NoRecord]

\* Install directories as earlier runs or the user may have left them: a
\* tool's canonical directory holds its executable under the Windows name,
\* under the Unix name, or not at all, and soffice.exe may lie in the
\* PortableApps directories.
InitProbe ==
    /\ Fresh
    /\ OneTool
    /\ installed \in
          [Tools -> { {} } \cup
                    { { [dst |-> n, src |-> NoEntry] } :
                        n \in { Name(e, x) : e \in {"ffmpeg", "pandoc", "soffice"},
                                             x \in {"", ".exe"} } }]
    /\ \A t \in Tools : \A r \in installed[t] :
          r.dst.stem = CanonicalExe(t, platform).stem
    /\ elsewhere \in SUBSET AlternatePaths
    /\ ledger = [t \in Tools |-> NoRecord]

\* Tool directories as earlier runs and earlier catalogs may have left
\* their version.json files.
InitUpdates ==
    /\ Fresh
    /\ OneTool
    /\ installed = [t \in Tools |-> {}]
    /\ elsewhere = {}
    /\ ledger \in [Tools -> LedgerFiles]

\* Nothing is installed; the behaviour makes its calls for two catalog
\* tools, each of which has a URL for the platform.
InitPair ==
    /\ Fresh
    /\ scope \in { { t, u } : t \in Tools, u \in Tools } \ { { t } : t \in Tools }
    /\ supported = Tools
    /\ installed = [t \in Tools |-> {}]
    /\ elsewhere = {}
    /\ ledger = [t \in Tools |-> NoRecord]

\* Nothing is installed; the behaviour calls download_all_tools, under any
\* catalog.
InitAll ==
    /\ Fresh
    /\ scope = Tools
    /\ supported \in Catalogs
    /\ installed = [t \in Tools |-> {}]
    /\ elsewhere = {}
    /\ ledger = [t \in Tools |-> NoRecord]

\* The tool directory of the behaviour's tool as earlier runs may have left
\* its version.json; the other tools have none.
InitVersion ==
    /\ Fresh
    /\ OneTool
    /\ installed = [t \in Tools |-> {}]
    /\ elsewhere = {}
    /\ ledger \in { [t \in Tools |-> IF t \in scope THEN f ELSE NoRecord] :
                      f \in LedgerFiles }

Errors == {"none", "request", "other"}

Next ==
    \/ \E t \in Tools \cup { UnknownTool }, cb \in BOOLEAN : Start(t, cb)
    \/ \E t \in Tools, force \in BOOLEAN, cb \in BOOLEAN :
          DownloadFileCall(t, force, cb)
    \/ DownloadFileCheck
    \/ \E err \in Errors, opened \in BOOLEAN, total \in 0..MaxBytes,
          got \in 0..MaxBytes : DownloadFileAttempt(err, opened, total, got)
    \/ DownloadFileReturn
    \/ AfterFirstDownload
    \/ \E ok \in BOOLEAN, unpacked \in SUBSET TreeUniverse(tool, platform) :
          Extract(ok, unpacked)
    \/ Organize
    \/ \E raised \in {"none", "unlink", "rmtree"} : Cleanup(raised)
    \/ Record
    \/ Return
    \/ CheckForUpdates
    \/ CheckForUpdatesReturn
    \/ \E t \in Tools \cup { UnknownTool } : Probe(t)
    \/ ProbeReturn

Spec == Init /\ [][Next]_vars

NextProbe ==
    \/ \E t \in Tools \cup { UnknownTool } : Probe(t)
    \/ ProbeReturn

\* get_tool_path over every state of the install directories.
SpecProbe == InitProbe /\ [][NextProbe]_vars

NextDialog ==
    \/ \E t \in Tools : Start(t, TRUE)
    \/ DownloadFileCheck
    \/ \E err \in {"none", "request"}, got \in 0..1 :
          DownloadFileAttempt(err, got = 1, got, got)
    \/ AfterFirstDownload
    \/ \E ok \in BOOLEAN, unpacked \in SUBSET TreeUniverse(tool, platform) :
          Extract(ok, unpacked)
    \/ Organize
    \/ \E raised \in {"none", "unlink", "rmtree"} : Cleanup(raised)
    \/ Record
    \/ Return
    \/ Cancel
    \/ \E t \in Tools : PeerStart(t)
    \/ PeerReturn

\* Installs run by ToolDownloadThread, with cancellation and a second
\* caller.  The server sends a body of one chunk with a matching
\* content-length, sends nothing, or the request fails.
SpecDialog == Init /\ [][NextDialog]_vars

NextFaults ==
    \/ \E t \in Tools \cup { UnknownTool }, cb \in BOOLEAN : Start(t, cb)
    \/ DownloadFileCheck
    \/ \E err \in {"none", "request"}, got \in 0..1 :
          DownloadFileAttempt(err, got = 1, got, got)
    \/ AfterFirstDownload
    \/ \E ok \in BOOLEAN, unpacked \in SUBSET TreeUniverse(tool, platform) :
          Extract(ok, unpacked)
    \/ Organize
    \/ \E raised \in {"none", "unlink", "rmtree"} : Cleanup(raised)
    \/ Record
    \/ Return
    \/ \E t \in Tools, cb \in BOOLEAN : StartRaises(t, cb)
    \/ \E truncated \in BOOLEAN : RecordRaises(truncated)

\* Installs in which the file-system calls that no try-block encloses may
\* fail.  The server sends a body of one chunk with a matching
\* content-length, sends nothing, or the request fails.
SpecFaults == Init /\ [][NextFaults]_vars

NextPair ==
    \/ \E t \in Tools : Start(t, FALSE)
    \/ DownloadFileCheck
    \/ \E err \in {"none", "request"}, got \in 0..1 :
          DownloadFileAttempt(err, got = 1, got, got)
    \/ AfterFirstDownload
    \/ \E ok \in BOOLEAN :
          Extract(ok, IF ok THEN TreeUniverse(tool, platform) ELSE {})
    \/ Organize
    \/ \E raised \in {"none", "rmtree"} : Cleanup(raised)
    \/ Record
    \/ Return

\* Installs of two different tools, one call after the other in any order
\* and number.  The server sends a body of one chunk with a matching
\* content-length, sends nothing, or the request fails; an archive that
\* unpacks holds every file of its tool.
SpecPair == InitPair /\ [][NextPair]_vars

NextAll ==
    \/ \E cb \in BOOLEAN : DownloadAllTools(cb)
    \/ CallInstall
    \/ DownloadFileCheck
    \/ \E err \in {"none", "request"}, got \in 0..1 :
          DownloadFileAttempt(err, got = 1, got, got)
    \/ AfterFirstDownload
    \/ \E ok \in BOOLEAN :
          Extract(ok, IF ok THEN TreeUniverse(tool, platform) ELSE {})
    \/ Organize
    \/ Cleanup("none")
    \/ Record
    \/ AllCollect
    \/ AllReturn

\* Calls of download_all_tools.  The server sends a body of one chunk with
\* a matching content-length, sends nothing, or the request fails; an
\* archive that unpacks holds every file of its tool, and the clean-up
\* does not fail.
SpecAll == InitAll /\ [][NextAll]_vars

NextVersion ==
    \/ \E t \in Tools : GetInstalledVersion(t)
    \/ GetInstalledVersionReturn

\* get_installed_version over every state of a tool's ledger file.
SpecVersion == InitVersion /\ [][NextVersion]_vars

\* The steps of the ToolDownloadThread.
ThreadSteps ==
    \/ ThreadRun
    \/ DownloadFileCheck
    \/ \E err \in {"none", "request"}, got \in 0..1 :
          DownloadFileAttempt(err, got = 1, got, got)
    \/ AfterFirstDownload
    \/ \E ok \in BOOLEAN :
          Extract(ok, IF ok THEN TreeUniverse(tool, platform) ELSE {})
    \/ Organize
    \/ Cleanup("none")
    \/ Record
    \/ \E truncated \in BOOLEAN : RecordRaises(truncated)
    \/ ThreadFinish

NextGui ==
    \/ \E t \in Tools : DownloadTool(t)
    \/ ThreadSteps
    \/ DownloadFinished
    \/ Accept
    \/ AcceptDone

\* One FirstRunDialog, from its construction to its closing: downloads
\* of one tool started by download_tool, each run by a ToolDownloadThread.
SpecGui == Init /\ [][NextGui]_vars

\* The same dialog under its scheduling: a started thread runs to its
\* end, and the event loop delivers every queued signal.
SpecGuiLive ==
    SpecGui /\ WF_vars(ThreadSteps) /\ WF_vars(DownloadFinished)

\* No tool is being installed; only the converters are at work.
InitCore ==
    /\ Init
    /\ platform = "linux"
    /\ scope = { "ffmpeg" }
    /\ supported = Tools

NextManager ==
    \/ \E name \in Names, c \in Converters : RegisterConverter(name, c)
    \/ \E path \in Paths, exists \in BOOLEAN, tf \in Formats,
          outcome \in Outcomes : ManagerConvert(path, exists, tf, outcome)
    \/ ManagerReturn

\* ConversionManager: converters are registered, and convert is called
\* on any path with any target format.
SpecManager == InitCore /\ [][NextManager]_vars

\* The batch converts to pdf, with at most one converter registered.
NextBatch ==
    \/ \E c \in Converters : RegisterConverter("first", c)
    \/ \E entries \in { d \in SUBSET Entries : Cardinality(d) <= MaxEntries },
          n \in 0..MaxPatterns :
             \E pats \in [1..n -> Patterns] : BatchConvert(entries, pats)
    \/ \E exists \in BOOLEAN, outcome \in Outcomes :
          BatchStep(exists, "pdf", outcome)
    \/ BatchLoopEnd
    \/ BatchReturn

\* BatchConverter.batch_convert over the directories of Entries.
SpecBatch == InitCore /\ [][NextBatch]_vars

NextUpdates == CheckForUpdates \/ CheckForUpdatesReturn

\* check_for_updates over every state of the ledger files.
SpecUpdates == InitUpdates /\ [][NextUpdates]_vars

(***************************************************************************)
(* Properties of download_and_setup_tool and download_file.                *)
(***************************************************************************)
\* An install of a tool with a URL for the platform has returned.
InstallReturned == pc = "done" /\ tool \in supported

\* A download_file call is at its cache check, in its loop, or returning.
InDownloadFile == pc \in {"df_check", "df_loop", "df_ret"}

\* C1: every install of a tool with a URL for the platform returns True
\* with the tool's canonical executable in its install directory, or
\* returns False without having written version.json.
C1_DoneWithExeOrFailedWithoutLedger ==
    InstallReturned =>
        \/ result = "True" /\ ExePresent(tool)
        \/ result = "False" /\ ~wroteLedger

\* C2: after any sequence of installs a tool has a version.json record
\* only if its canonical executable is on disk (the record is written
\* after presence of the executable has been checked).
C2_LedgerOnlyWithExe ==
    \A t \in Tools : ledger[t] # NoRecord => ExePresent(t)

\* C3: whenever an install has passed the platform check and returned, the
\* clean-up step has run: the downloaded artifact is deleted and temp/<tool>
\* is removed.
C3_CleanupBeforeEveryReturn ==
    InstallReturned =>
        /\ cleaned
        /\ files[ActualPath.text] = "absent"
        /\ scratch[tool] = "absent"

\* C4: a size mismatch on an attempt of download_file, the last permitted
\* attempt included, is a failed attempt: a call whose last attempt wrote a
\* number of bytes other than the advertised content-length does not return
\* the file path.
C4_MismatchIsNeverReturned ==
    (pc = "df_ret" /\ ~dfHit /\ dfTrace # << >>
       /\ dfTrace[Len(dfTrace)] = "mismatch")
    => dfRet = "None"

\* C5: a partially written file left at the artifact path by an earlier
\* call is not returned by a later download_file call as a completed
\* artifact and is not passed to extract_archive by a later install: a call
\* that has made no network request has neither hit the cache on a partial
\* file nor extracted one.
C5_PartialLeftoverNeverUsed ==
    netReqs = 0 =>
        /\ (pc = "df_ret" /\ dfHit) => files[ActualPath.text] # "partial"
        /\ extracted # "partial"

\* The first n attempts of the download_file call in flight all raised a
\* RequestException.
FailedTransiently(n) ==
    n <= Len(dfTrace) /\ \A i \in 1..n : dfTrace[i] = "request"

\* C6: a download_file call with no usable cached file whose first k
\* attempts fail transiently goes on while k < max_retries, returns the
\* file path after exactly k + 1 attempts when the next attempt succeeds,
\* and returns None after exactly max_retries attempts when all of them
\* fail.
C6_RetryBound ==
    InDownloadFile =>
        /\ attempt = Len(dfTrace)
        /\ attempt <= max_retries
        /\ (attempt > 0 /\ FailedTransiently(attempt)
               /\ attempt < max_retries) => pc = "df_loop"
        /\ (FailedTransiently(attempt) /\ attempt = max_retries) =>
               (pc = "df_ret" /\ dfRet = "None")
        /\ (attempt > 0 /\ FailedTransiently(attempt - 1)
               /\ dfTrace[attempt] = "ok") =>
               (pc = "df_ret" /\ dfRet = "path" /\ attempt - 1 < max_retries)

C6_TwoFailuresThenSuccess ==
    /\ pc = "df_ret"
    /\ dfTrace = << "request", "request", "ok" >>
    /\ dfRet = "path"

\* C7: an install whose first network attempt fails transiently and whose
\* second succeeds makes exactly 2 network attempts over both of its
\* download_file calls and, when extraction and organize succeed, returns
\* True with version.json written.
C7_FailThenSucceed ==
    (dfCaller \in {"install1", "install2"}
       /\ netHead = << "request", "ok" >>)
    => /\ netReqs = 2
       /\ (pc = "df_ret" /\ dfCaller = "install2") => dfHit
       /\ (pc = "done" /\ organizeOk) =>
              /\ result = "True"
              /\ wroteLedger
              /\ ledger[tool] =
                     [version |-> CatalogVersion(tool), platform |-> platform]

C7_FailThenSucceedDone ==
    /\ pc = "done"
    /\ dfCaller = "install2"
    /\ netHead = << "request", "ok" >>
    /\ netReqs = 2
    /\ result = "True"
    /\ wroteLedger

\* C8: an install of a tool that a previous install left fully installed
\* makes no network request and returns True.
C8_ReinstallMakesNoFetch ==
    (pc = "done" /\ preInstalled) => (result = "True" /\ netReqs = 0)

\* C9: download_file returns from its cache check exactly when the target
\* path (the renamed path for the SourceForge LibreOffice URL) holds a
\* non-empty file and force_download is false; it then returns that path,
\* reports (100, 100) and makes no network request; otherwise it goes to
\* the network.
C9_CacheHit ==
    /\ (pc = "df_ret" /\ dfHit) =>
           /\ ~dfForce
           /\ files[ActualPath.text] \in {"partial", "whole"}
           /\ dfRet = "path"
           /\ attempt = 0 /\ dfTrace = << >>
           /\ (dfCaller = "direct" /\ hasCb) => dfReported = << 100, 100 >>
           /\ (dfCaller = "direct") => netReqs = 0
           /\ (dfCaller # "direct" /\ hasCb) => lastEvent = << "download", 100 >>
    /\ (pc = "df_loop" /\ attempt = 0) =>
           (dfForce \/ files[ActualPath.text] \in {"absent", "empty"})
    /\ (pc = "df_ret" /\ ~dfHit) => attempt >= 1

C9_RenamedPathHit ==
    /\ pc = "df_ret"
    /\ dfHit
    /\ dfCaller = "direct"
    /\ hasCb
    /\ ActualPath # TargetPath
    /\ dfReported = << 100, 100 >>

\* C10: an install of a tool that is not in the catalog or has no URL for
\* the platform returns False without a network request, a progress event
\* or a ledger record.
C10_UnsupportedFailsFirst ==
    (pc \in {"df_check", "df_loop", "df_ret", "organize", "cleanup",
             "record", "done"} /\ dfCaller # "direct" /\ tool \notin supported)
    => /\ pc = "done"
       /\ result = "False"
       /\ netReqs = 0
       /\ ~emitted
       /\ lastEvent = NoEvent
       /\ ~wroteLedger

C10_NoUrlForPlatform ==
    /\ pc = "done"
    /\ hasCb
    /\ tool \in Tools
    /\ tool \notin supported
    /\ result = "False"

\* C11: an organize strategy returns True only when the tool's canonical
\* executable exists at its target path (bin/ffmpeg, bin/pandoc or
\* program/soffice, platform-suffixed) after the copies.
C11_OrganizeTrueOnlyWithExe ==
    (pc \in {"cleanup", "record"} /\ organizeOk) => ExePresent(tool)

\* C12: when the organize stage of an install copies no file (every copy
\* failed, or there was nothing to copy), the install returns False and
\* writes no ledger record, whatever the install directory held before.
C12_NoCopyMeansFailed ==
    (pc \in {"cleanup", "record", "done"} /\ ~copiedAny)
    => /\ ~organizeOk
       /\ ~wroteLedger
       /\ result # "True"

C15_UnsupportedArchiveFails ==
    /\ \A p \in Platforms, ext \in {".dmg", ".7z", ""} :
          ExtractStrategy(Seg("artifact", ext, {}), p) \in {"dmg", "unsupported"}
    /\ (extracted # "absent"
          /\ ExtractStrategy(ActualPath, platform) \in {"dmg", "unsupported"})
       => /\ pc = "done"
          /\ result = "False"
          /\ extractDir = {}
          /\ scratch[tool] = "empty"
          /\ ~cleaned
          /\ ~wroteLedger

C15_DiskImageRejected ==
    /\ pc = "done"
    /\ extracted = "whole"
    /\ ActualPath.ext = ".dmg"
    /\ result = "False"
    /\ scratch[tool] = "empty"

\* C16: while one download_and_setup_tool(T) is in flight no second
\* install of T is running: there are never two writers on temp/<T> and
\* the install directory of T.
C16_OneInstallPerTool ==
    ~(Stage # "none" /\ peer = "running")

\* C17: after ToolDownloadThread.cancel() the install lets at most its
\* current stage finish and starts no further one: an install cancelled
\* during its download stage does not go on to extract the archive (nor
\* to organize), and writes no ledger record.
C17_CancelStopsThePipeline ==
    cancelledAt = "download" =>
        /\ Stage \in {"download", "none"}
        /\ extracted = "absent"
        /\ ~wroteLedger

\* C18: when the unpacked tree holds the tool's entry-point executable,
\* at whatever depth, and no copy fails, the organize strategy installs it
\* at the canonical path; the install then returns True and
\* get_installed_version reports the catalog version.
C18_NestedExecutableIsInstalled ==
    (pc \in {"cleanup", "record", "done"} /\ (pc = "done" => cleaned)
       /\ ~copyRaised
       /\ \E e \in extractDir : e.name = CanonicalExe(tool, platform))
    => /\ organizeOk
       /\ ExePresent(tool)
       /\ pc = "done" =>
             /\ result = "True"
             /\ get_installed_version(tool) = CatalogVersion(tool)

\* C19: after an install has returned True the artifact file that was
\* downloaded and extracted is gone, also when download_file stored it
\* under the renamed path: once the clean-up has deleted download_path,
\* no file is left at the path download_file wrote to.
C19_ArtifactDeletedAfterSuccess ==
    (pc = "done" /\ result = "True" /\ files[TargetPath.text] = "absent")
    => files[ActualPath.text] = "absent"

\* C20: get_tool_path(T) looks for T's executable in T's canonical
\* install directory and nowhere else: whenever it returns a path, the
\* path lies in the canonical directory and T's entry-point executable is
\* there.
C20_ProbeLooksOnlyInCanonicalDir ==
    (pc = "probe_ret" /\ probed # "None")
    => /\ tool \in Tools
       /\ probed = CanonicalDir(tool)
       /\ ExePresent(tool)

\* C21: a download_and_setup_tool call that returns False leaves the
\* tool's installed state as it was: the files of the canonical install
\* directory and the version.json record are changed only by the steps of
\* an install whose organize stage succeeds (which returns True).
C21_FailedInstallKeepsInstalledState ==
    [][ ~organizeOk' => (installed' = installed /\ ledger' = ledger) ]_vars

\* C22: every progress event download_and_setup_tool gives the caller's
\* callback has a stage in {download, extract, organize} and a percentage
\* from 0 to 100, for every combination of bytes received and advertised
\* content-length.
C22_ProgressEventInRange ==
    lastEvent # NoEvent =>
        /\ lastEvent[1] \in {"download", "extract", "organize"}
        /\ lastEvent[2] \in 0..100

\* C23: every call of download_and_setup_tool ends by returning a boolean
\* (no exception escapes to the caller), and when a progress callback was
\* passed it returns True exactly when the last progress event it emitted
\* is (organize, 100).
C23_ReturnsBooleanMatchingLastEvent ==
    pc = "done" =>
        /\ result \in {"True", "False"}
        /\ hasCb => (result = "True" <=> lastEvent = << "organize", 100 >>)

C26_FfmpegCopiesExactNames ==
    (pc \in {"cleanup", "record"} /\ tool = "ffmpeg" /\ organizeOk
       /\ \A k \in 1..2 :
             \E e \in extractDir : e.name = Name(FfmpegExes[k], ExeSuffix(platform)))
    => \A k \in 1..2 :
          \E r \in installed["ffmpeg"] :
             /\ r.dst = Name(FfmpegExes[k], ExeSuffix(platform))
             /\ r.src \in extractDir
             /\ r.src.name = r.dst

\* C27: in every organize strategy a failed file copy is skipped and does
\* not abort the strategy: after a run in which a copy raised, the
\* strategy's result is still the final existence check of the canonical
\* executable, True exactly when the executable is in place.
C27_CopyFailureDoesNotDecide ==
    (pc \in {"cleanup", "record"} /\ copyRaised)
    => (organizeOk <=> ExePresent(tool))

\* C28: organize_libreoffice copies the whole contents of the program
\* directory under App when that directory holds the executable, and
\* otherwise, on every platform, the contents of the directory in which a
\* recursive search finds the executable: when the scratch tree holds the
\* executable and no copy fails, every file of such a directory is in
\* program/ afterwards.
C28_LibreofficeCopiesProgramDir ==
    (pc \in {"cleanup", "record"} /\ tool = "libreoffice" /\ ~copyRaised
       /\ \E s \in extractDir : s.name = Name("soffice", ExeSuffix(platform)))
    => \E s \in extractDir :
          /\ s.name = Name("soffice", ExeSuffix(platform))
          /\ Entry(AppProgramDir, "soffice", ExeSuffix(platform)) \in extractDir
                => s.dir = AppProgramDir
          /\ \A e \in extractDir :
                e.dir = s.dir =>
                    [dst |-> e.name, src |-> e] \in installed["libreoffice"]

\* C29: within one download_and_setup_tool call the progress events
\* follow the pipeline order: once the extract stage has been announced
\* by ("extract", 0) no download event follows, and once an organize
\* event has been emitted no download or extract event follows.
C29_EventsFollowPipelineOrder ==
    hasCb =>
        /\ dfCaller = "install2" => lastEvent[1] \in {"extract", "organize"}
        /\ pc \in {"cleanup", "record"} => lastEvent[1] = "organize"

\* C30: whenever extraction starts inside download_and_setup_tool(T), the
\* scratch directory temp/<T> exists and is empty, whatever an earlier
\* attempt left there; it stays so from the start of the call until
\* extract_archive is called, and the files organize then sees are those
\* the current call unpacked.
C30_ScratchEmptyWhenExtractionStarts ==
    /\ (pc \in {"df_check", "df_loop", "df_ret"}
          /\ dfCaller \in {"install1", "install2"}) =>
           /\ scratch[tool] = "empty"
           /\ extractDir = {}
    /\ pc = "organize" =>
           scratch[tool] = (IF extractDir = {} THEN "empty" ELSE "files")

\* An install that found the artifact an earlier attempt had left in temp/
\* (it made no request) is about to call extract_archive.
C30_ExtractionStartsAfterEarlierAttempt ==
    /\ pc = "df_ret"
    /\ dfCaller = "install2"
    /\ dfRet = "path"
    /\ netReqs = 0
    /\ tool = "ffmpeg"
    /\ scratch[tool] = "empty"

\* C31: a single download_and_setup_tool call makes at most max_retries
\* network fetch attempts in total over all of its calls to download_file,
\* whatever the server returns.
C31_AtMostMaxRetriesFetches ==
    dfCaller \in {"install1", "install2"} => netReqs <= max_retries

\* C32: in download_file only a requests RequestException consumes an
\* attempt and is retried; any other exception raised during an attempt
\* ends the call at once with None, with no further attempt, even when
\* attempts remain.
C32_OnlyRequestErrorsAreRetried ==
    InDownloadFile =>
        \A i \in 1..Len(dfTrace) :
            /\ dfTrace[i] = "other" =>
                   /\ i = Len(dfTrace)
                   /\ pc = "df_ret"
                   /\ dfRet = "None"
            /\ (dfTrace[i] = "request" /\ i < max_retries /\ i = Len(dfTrace)) =>
                   pc = "df_loop"

C32_WriteErrorEndsTheCall ==
    /\ pc = "df_ret"
    /\ dfTrace = << "request", "other" >>
    /\ attempt < max_retries
    /\ dfRet = "None"

\* C35: once download_and_setup_tool(T) has returned True,
\* get_installed_version(T) is the catalog version of T and
\* check_for_updates reports no update for T, and this stays so while
\* the ledger is not rewritten: every ledger record an install has left
\* reads as the catalog version and as up to date.
C35_InstalledVersionIsCatalogVersion ==
    /\ (pc = "done" /\ result = "True") =>
           /\ get_installed_version(tool) = CatalogVersion(tool)
           /\ check_for_updates[tool].installed = CatalogVersion(tool)
           /\ ~check_for_updates[tool].update_available
    /\ \A t \in Tools :
           ledger[t] # NoRecord =>
               /\ get_installed_version(t) = CatalogVersion(t)
               /\ ~check_for_updates[t].update_available
               /\ pc = "cfu_ret" =>
                      /\ updates[t].installed = CatalogVersion(t)
                      /\ ~updates[t].update_available

C35_UpToDateAfterInstall ==
    /\ pc = "cfu_ret"
    /\ \E t \in Tools :
          /\ ledger[t] # NoRecord
          /\ updates[t].installed = CatalogVersion(t)
          /\ updates[t].latest = CatalogVersion(t)
          /\ ~updates[t].update_available

\* C36: an error raised in the clean-up step, while deleting the artifact
\* or removing the scratch directory, is swallowed: the call still
\* returns organize's result, and version.json is still written after a
\* successful organize.
C36_CleanupErrorIsSwallowed ==
    (pc = "done" /\ cleaned) =>
        /\ result = (IF organizeOk THEN "True" ELSE "False")
        /\ organizeOk =>
              /\ wroteLedger
              /\ ledger[tool] =
                    [version |-> CatalogVersion(tool), platform |-> platform]

\* The clean-up failed: the scratch directory is still there after a
\* successful install.
C36_InstalledDespiteCleanupError ==
    /\ pc = "done"
    /\ cleaned
    /\ scratch[tool] = "files"
    /\ result = "True"
    /\ wroteLedger

\* C37: get_installed_version(T) returns the version stored in T's
\* version.json when the file exists and parses (None when the object has
\* no version), and returns None when the file is missing, unreadable or
\* not valid JSON.
C37_ReadsVersionOrNone ==
    pc = "giv_ret" =>
        result = (IF ledger[tool] \in
                        [version : KnownVersions \cup {"None"}, platform : Platforms]
                  THEN ledger[tool].version
                  ELSE "None")

C37_UnreadableFileReadsAsNone ==
    /\ pc = "giv_ret"
    /\ ledger[tool] = CorruptRecord
    /\ result = "None"

\* C33: within one FirstRunDialog at most one ToolDownloadThread runs at
\* any time: no thread is ever started while another runs, a running
\* thread always finds download_in_progress set (the flag is set before
\* the thread starts), and no step taken while the flag is set starts a
\* thread or adds one to download_threads.
C33_AtMostOneDownloadThread ==
    /\ [](~overlap /\ (threadState = "running" => download_in_progress))
    /\ [][download_in_progress =>
            /\ threadState' = "running" => threadState = "running"
            /\ overlap' = overlap
            /\ download_threads' \subseteq download_threads]_vars

\* A download is running in an open dialog, where download_tool can be
\* called again and is refused.
C33_DownloadRunningInOpenDialog ==
    /\ dialog = "open"
    /\ download_in_progress
    /\ threadState = "running"
    /\ Stage = "extract"
    /\ download_threads = { tool }

\* C34: every download started by download_tool that is not cancelled
\* leads to exactly one run of the download_finished slot, after which
\* download_in_progress is false again; and download_in_progress is
\* never true with neither a running thread nor a download_finished
\* signal on its way to the slot.
C34_EveryDownloadFinishesOnce ==
    /\ [](download_in_progress => threadState = "running" \/ queued # << >>)
    /\ [](finishedSeen <= 1)
    /\ (download_in_progress /\ dialog = "open")
          ~> ((~download_in_progress /\ finishedSeen = 1) \/ dialog # "open")

\* C38: ConversionManager.convert raises FileNotFoundError when the
\* source does not exist; else UnsupportedFormatError when no registered
\* converter can convert the lower-cased source and target formats; else
\* it uses the first converter, in the order of the registry, that can
\* convert them, raises ConverterError when that converter returns False
\* (or raises it), and otherwise returns the source path with its suffix
\* replaced by the lower-cased target format.
C38_ConvertChecksInOrder ==
    mgrArgs # NoCall =>
      LET able == { i \in 1..Len(converters) :
                      /\ Lower(mgrArgs.path.suffix) \in converters[i].conv.inputs
                      /\ Lower(mgrArgs.target_format)
                            \in converters[i].conv.outputs }
      IN  IF ~mgrArgs.exists
          THEN mgrRet.kind = "FileNotFoundError"
          ELSE IF able = {}
          THEN mgrRet.kind = "UnsupportedFormatError"
          ELSE \E i \in able :
                 /\ \A j \in able : i <= j
                 /\ mgrRet.by = converters[i].name
                 /\ IF mgrArgs.outcome = "True"
                    THEN /\ mgrRet.kind = "return"
                         /\ mgrRet.path =
                              [stem |-> mgrArgs.path.stem,
                               suffix |-> Lower(mgrArgs.target_format)]
                    ELSE mgrRet.kind = "ConverterError"

\* convert("a.JPG", "PDF") returns a.pdf by the first of two converters
\* that both convert jpg to pdf.
C38_FirstOfTwoConverts ==
    /\ mgrArgs # NoCall
    /\ mgrRet.kind = "return"
    /\ mgrArgs.path.suffix = "JPG"
    /\ mgrArgs.target_format = "PDF"
    /\ Len(converters) = 2
    /\ \A i \in 1..2 : can_convert(converters[i].conv, "jpg", "pdf")
    /\ converters[1].conv # converters[2].conv
    /\ mgrRet.by = converters[1].name

\* C39: when batch_convert returns, every regular file of the source
\* directory that some pattern matches is exactly once in exactly one
\* of the lists successful and failed, and nothing else is in them;
\* manager.convert was called once per such file, also after a call
\* that raised; a file is in failed exactly when its call raised.
C39_EveryMatchedFileInOneList ==
    bpc = "ret" =>
      LET pats == IF patterns = << >> THEN << "*.*" >> ELSE patterns
          matched == { e \in source_dir :
                         /\ e.is_file
                         /\ \E i \in 1..Len(pats) : Matches(pats[i], e) }
          times(e, seq) == Cardinality({ i \in 1..Len(seq) : seq[i] = e })
      IN  /\ \A e \in Entries :
                times(e, resSuccessful) + times(e, resFailed)
                  = IF e \in matched THEN 1 ELSE 0
          /\ Len(batchLog) = Cardinality(matched)
          /\ \A i \in 1..Len(batchLog) :
                /\ batchLog[i].kind = "return"
                      => times(batchLog[i].file, resSuccessful) = 1
                /\ batchLog[i].kind # "return"
                      => times(batchLog[i].file, resFailed) = 1

\* Two patterns match the same file; the first conversion of the batch
\* raised ConverterError and a later one succeeded.
C39_ErrorThenSuccess ==
    /\ bpc = "ret"
    /\ Len(patterns) = 2
    /\ \E e \in source_dir :
         e.is_file /\ Matches(patterns[1], e) /\ Matches(patterns[2], e)
    /\ \E e \in source_dir : ~e.is_file /\ Matches(patterns[1], e)
    /\ Len(batchLog) >= 2
    /\ batchLog[1].kind = "ConverterError"
    /\ batchLog[2].kind = "return"
    /\ resFailed # << >>
    /\ resSuccessful # << >>
====
